---- MODULE Spec2Model ----
(***************************************************************************)
(* State-machine model of the networking and event-orchestration core of   *)
(* J-Discord-AI-Core:                                                      *)
(*   - DiscordClient.api / checkRateLimit / updateRateLimit                *)
(*     (modules/discord-client.js), the rate-limited REST client;          *)
(*   - EventSystem (modules/event-system.js), the event dispatcher;        *)
(*   - AIEngine.processIntelligence (modules/ai-engine.js), the call of a  *)
(*     primary provider with fallback to a secondary one;                  *)
(*   - DiscordClient.connectGateway / handleGatewayMessage / disconnect /  *)
(*     reconnect (modules/discord-client.js), the gateway session.         *)
(*                                                                         *)
(* JavaScript runs every synchronous segment to completion, so one action  *)
(* of the model is one synchronous segment of a method: from its entry or  *)
(* from the resumption of an await up to the next await or the return.     *)
(* Every awaited callable (listener, filter, middleware, fetch, timer) may *)
(* take arbitrarily long, so segments of different coroutines interleave   *)
(* freely.                                                                 *)
(***************************************************************************)
EXTENDS Integers, Sequences, FiniteSets, TLC

(***************************************************************************)
(* Bounds of the model.                                                    *)
(***************************************************************************)
MaxRequests == 2
MaxTime == 3000
MaxEmits == 4
MaxListeners == 2
MaxOff == 2
MaxFilters == 2
MaxMiddleware == 2
MaxErrorHandlers == 1
MaxExecutes == 7
MaxInFlight == 2
MaxProbes == 1
MaxSockets == 3
MaxFrames == 3
MaxSeq == 3
MaxGatewayCalls == 2
MaxResets == 1
MaxBeats == 2
\* Calls in the specification that studies one call next to the others.
ExecutesCall == 2
\* Emits in the specifications that study one pass or one batch.
EmitsBatch == 3
EmitsPass == 2
EmitsFilter == 1

(***************************************************************************)
(* Values of the program.                                                  *)
(***************************************************************************)
MsPerSecond == 1000
DefaultHeader == 1
NaN == -1
Null == -1
Undefined == -1
DefaultPriority == 5
BuiltInPriority == 1
ErrorLimit == 5
\* EventSystem.config, scaled down (the defaults are 1000 and 10).
maxQueueSize == 2
concurrentEvents == 2

Requests == 1..MaxRequests

\* An endpoint is the list of its path segments ("channels/1/messages").
Endpoints ==
    { <<"channels", "1", "messages">>,
      <<"channels", "1", "pins">>,
      <<"users", "@me">> }

\* What a response header can hold once parseInt has read it: NaN when the
\* header is absent, or the number.
RemainingHeaders == {NaN, 0, 1}
ResetAfterHeaders == {NaN, 1, 2}

\* The status of a response, and the seconds of its retry-after header,
\* which a rate-limit rejection (429) carries.
Statuses == {200, 429, 500}
RetryAfterHeaders(status) == IF status = 429 THEN {1, 2} ELSE {NaN}

VARIABLES
    now,            \* Date.now(), in milliseconds
    rateLimits,     \* DiscordClient.rateLimits: route key -> resetTime (0: no entry)
    req,            \* the api() calls: position, endpoint, wake-up time
    blockedUntil,   \* history: route key -> end of the last reported reset window
    earlyDispatch,  \* history: api() calls handed to fetch inside such a window
    eventListeners, \* EventSystem.eventListeners: name -> array of listeners
    middlewareStack,\* EventSystem.middlewareStack: name -> array of middleware
    eventFilters,   \* EventSystem.eventFilters: name -> array of filters
    errorHandlers,  \* EventSystem.errorHandlers: name -> array of handlers
    eventQueue,     \* EventSystem.eventQueue: array of event ids
    isProcessing,   \* EventSystem.isProcessing
    processingQueue,\* EventSystem.processingQueue: the promises of the batch
    activeEvents,   \* EventSystem.activeEvents
    metrics,        \* EventSystem.metrics
    immediates,     \* setImmediate(() => this.processEventQueue()) callbacks pending
    batches,        \* processEventQueue() calls suspended in Promise.allSettled
    ev,             \* the emitted events: position of processEvent for each
    call,           \* the emit() calls: what the caller has been told
    hist,           \* history of each event: filters, middleware, listeners run
    reg,            \* history of the registry: counters, results of off()
    providerStatus, \* AIEngine.providerStatus: available and errorCount of each provider
    exec,           \* the processIntelligence() calls in flight: position and history
    engine,         \* history of the engine: calls made, failures in a row
    ws,             \* DiscordClient.ws: the socket it points to (0: null)
    sockets,        \* the WebSocket objects made by connectGateway
    lastSequence,   \* DiscordClient.lastSequence (Null: null)
    connected,      \* DiscordClient.connected
    heartbeat,      \* heartbeatInterval (handle, 0: null) and the intervals running
    timers,         \* pending setTimeout callbacks: auto-reconnect, reconnect()'s wait
    gateway         \* history of the gateway: frames seen, calls made, shutdown

restVars == <<now, rateLimits, req, blockedUntil, earlyDispatch>>

registryVars == <<eventListeners, middlewareStack, eventFilters, errorHandlers>>

engineVars == <<providerStatus, exec, engine>>

gatewayVars == <<ws, sockets, lastSequence, connected, heartbeat, timers, gateway>>

queueVars == <<eventQueue, isProcessing, processingQueue, activeEvents, immediates,
               batches>>

vars == <<now, rateLimits, req, blockedUntil, earlyDispatch, eventListeners,
          middlewareStack, eventFilters, errorHandlers, eventQueue, isProcessing,
          processingQueue,
          activeEvents, metrics, immediates, batches, ev, call, hist, reg,
          providerStatus, exec, engine, ws, sockets, lastSequence, connected, heartbeat,
          timers, gateway>>

----------------------------------------------------------------------------
(***************************************************************************)
(* DiscordClient: rate-limited REST client                                 *)
(***************************************************************************)

Min(a, b) == IF a < b THEN a ELSE b

\* endpoint.split('/').slice(0, 2).join('/')
getRouteKey(endpoint) == SubSeq(endpoint, 1, Min(2, Len(endpoint)))

RouteKeys == { getRouteKey(ep) : ep \in Endpoints }

\* parseInt(header) || 1 : NaN and 0 are both falsy.
ParseIntOrDefault(h) == IF h = NaN \/ h = 0 THEN DefaultHeader ELSE h

\* checkRateLimit: the time at which the caller is resumed.
checkRateLimit(endpoint) ==
    LET route == getRouteKey(endpoint)
    IN  IF rateLimits[route] # 0 /\ rateLimits[route] > now
            THEN rateLimits[route]
            ELSE now

\* updateRateLimit: the rateLimits map after a response's headers are read.
updateRateLimit(endpoint, remainingHeader, resetAfterHeader) ==
    LET route      == getRouteKey(endpoint)
        remaining  == ParseIntOrDefault(remainingHeader)
        resetAfter == ParseIntOrDefault(resetAfterHeader)
    IN  IF remaining = 0
            THEN [rateLimits EXCEPT ![route] = now + resetAfter * MsPerSecond]
            ELSE rateLimits

\* An api() call that has not been made; of a call that was made, `fetches`
\* counts the requests handed to fetch, `status` and `retryAfter` are those
\* of the response, `bucket` the route's entry of rateLimits and `at` the
\* time when updateRateLimit had read the response, `raised` the name of the
\* error thrown to the caller.
NoRequest ==
    [pc |-> "idle", endpoint |-> <<>>, wake |-> 0, inWindow |-> FALSE, fetches |-> 0,
     status |-> 0, retryAfter |-> NaN, bucket |-> 0, at |-> 0, raised |-> "none",
     reported |-> NaN]

\* response.ok
ResponseOk(status) == status \in 200..299

\* throw new Error(`Discord API Error: ${response.status} - ...`): the name
\* of the error that api() throws for a response, "none" when it returns.
ApiError(status) == IF ResponseOk(status) THEN "none" ELSE "Error"

\* api(endpoint): the synchronous part up to `await this.checkRateLimit()`.
ApiCall(r, endpoint) ==
    /\ req[r].pc = "idle"
    /\ req' = [req EXCEPT ![r] = [NoRequest EXCEPT
                                     !.pc = "limited", !.endpoint = endpoint,
                                     !.wake = checkRateLimit(endpoint),
                                     !.inWindow = now < blockedUntil[getRouteKey(endpoint)]]]
    /\ UNCHANGED <<now, rateLimits, blockedUntil, earlyDispatch>>
    /\ UNCHANGED <<registryVars, queueVars, metrics, ev, call, hist, reg, engineVars,
                   gatewayVars>>

\* api(endpoint): checkRateLimit has returned (its timer, if any, has
\* fired); the request is handed to fetch.
ApiFetch(r) ==
    /\ req[r].pc = "limited"
    /\ now >= req[r].wake
    /\ req' = [req EXCEPT ![r].pc = "fetching", ![r].fetches = @ + 1]
    /\ earlyDispatch' =
           IF req[r].inWindow /\ now < blockedUntil[getRouteKey(req[r].endpoint)]
               THEN earlyDispatch \cup {r}
               ELSE earlyDispatch
    /\ UNCHANGED <<now, rateLimits, blockedUntil>>
    /\ UNCHANGED <<registryVars, queueVars, metrics, ev, call, hist, reg, engineVars,
                   gatewayVars>>

\* history: the bucket state that a response reports at time `at`: the time
\* of the reset when it reports remaining = 0, 0 (not blocked) when it
\* reports a remaining count above 0, NaN when it reports none.
Reported(at, remainingHeader, resetAfterHeader) ==
    IF remainingHeader = NaN
        THEN NaN
        ELSE IF remainingHeader = 0
                 THEN at + (IF resetAfterHeader = NaN THEN 0 ELSE resetAfterHeader)
                               * MsPerSecond
                 ELSE 0

\* api(endpoint): the response arrives; updateRateLimit reads its headers,
\* and api() returns the body or throws.
ApiResponse(r, status, remainingHeader, resetAfterHeader, retryAfterHeader) ==
    /\ req[r].pc = "fetching"
    /\ rateLimits' = updateRateLimit(req[r].endpoint, remainingHeader, resetAfterHeader)
    /\ blockedUntil' =
           IF remainingHeader = 0
               THEN [blockedUntil EXCEPT ![getRouteKey(req[r].endpoint)] =
                        now + (IF resetAfterHeader = NaN THEN 0 ELSE resetAfterHeader)
                                * MsPerSecond]
               ELSE blockedUntil
    /\ req' = [req EXCEPT ![r].pc = "done", ![r].status = status,
                          ![r].retryAfter = retryAfterHeader,
                          ![r].bucket = rateLimits'[getRouteKey(req[r].endpoint)],
                          ![r].at = now,
                          ![r].reported = Reported(now, remainingHeader, resetAfterHeader),
                          ![r].raised = ApiError(status)]
    /\ UNCHANGED <<now, earlyDispatch>>
    /\ UNCHANGED <<registryVars, queueVars, metrics, ev, call, hist, reg, engineVars,
                   gatewayVars>>

\* Time passes.
Tick ==
    /\ now < MaxTime
    /\ now' = now + MsPerSecond
    /\ UNCHANGED <<rateLimits, req, blockedUntil, earlyDispatch>>
    /\ UNCHANGED <<registryVars, queueVars, metrics, ev, call, hist, reg, engineVars,
                   gatewayVars>>

----------------------------------------------------------------------------
(***************************************************************************)
(* EventSystem: the event dispatcher                                       *)
(***************************************************************************)

\* Event names: "test" has no built-in listener; "ready" has the built-in
\* listener handleReady, which emits "botReady".
Names == {"test", "ready", "botReady"}
Events == 1..MaxEmits

\* A listener: the fields of the object that on() builds, and for the
\* history its registration number `uid` and the priority `asked` for.
NoListener == [uid |-> 0, id |-> <<>>, priority |-> 0, asked |-> 0, once |-> FALSE,
               kind |-> "none", filter |-> "none", type |-> "none"]

\* A handler of kind "ok" returns or resolves, "throw" throws or rejects,
\* "hang" never settles (its timeout rejects), "builtin" is handleReady.
\* A listener filter "reject" returns false for the arguments emitted.
HandlerKinds == {"ok", "throw", "hang"}
ListenerFilters == {"none", "reject"}
PriorityOptions == {Undefined, 0, 1, DefaultPriority}

\* options.priority || 5 : undefined and 0 are both falsy.
PriorityOrDefault(p) == IF p = Undefined \/ p = 0 THEN DefaultPriority ELSE p

\* registerBuiltInEvent(eventName, handler): the listener it pushes.
registerBuiltInEvent(eventName) ==
    [uid |-> 0, id |-> <<"builtin", eventName, 0>>, priority |-> BuiltInPriority,
     asked |-> BuiltInPriority, once |-> FALSE, kind |-> "builtin", filter |-> "none", type |-> "built-in"]

\* initializeBuiltInEvents(): the registry after construction.
initializeBuiltInEvents ==
    [n \in Names |-> IF n = "ready" THEN <<registerBuiltInEvent(n)>> ELSE <<>>]

\* Array.prototype.sort((a, b) => a.priority - b.priority), which is stable:
\* insertion of each element behind the elements that do not compare greater.
RECURSIVE InsertByPriority(_, _)
InsertByPriority(sorted, x) ==
    IF sorted = <<>>
        THEN <<x>>
        ELSE IF sorted[Len(sorted)].priority - x.priority > 0
                 THEN Append(InsertByPriority(SubSeq(sorted, 1, Len(sorted) - 1), x),
                             sorted[Len(sorted)])
                 ELSE Append(sorted, x)

RECURSIVE SortByPriority(_)
SortByPriority(arr) ==
    IF arr = <<>>
        THEN <<>>
        ELSE InsertByPriority(SortByPriority(SubSeq(arr, 1, Len(arr) - 1)), arr[Len(arr)])

\* listeners.findIndex(l => l.id === listenerId): 0 when there is none.
FindIndex(listeners, listenerId) ==
    IF \E i \in 1..Len(listeners) : listeners[i].id = listenerId
        THEN CHOOSE i \in 1..Len(listeners) :
                 /\ listeners[i].id = listenerId
                 /\ \A j \in 1..(i - 1) : listeners[j].id # listenerId
        ELSE 0

\* listeners.splice(index, 1)
Splice(listeners, index) ==
    SubSeq(listeners, 1, index - 1) \o SubSeq(listeners, index + 1, Len(listeners))

\* off(eventName, listenerId): the array of the name afterwards.
off(listeners, listenerId) ==
    LET index == FindIndex(listeners, listenerId)
    IN  IF index # 0 THEN Splice(listeners, index) ELSE listeners

\* off(eventName, listenerId): the value returned.
offReturns(listeners, listenerId) == FindIndex(listeners, listenerId) # 0

\* The events whose listener pass over the array of `name` is under way.
InPass(name) == { e \in Events : ev[e].name = name /\ ev[e].st \in {"listeners", "await"} }

\* history: the array of `name` changed under the passes that iterate it.
MarkMutated(h, name) ==
    [e \in Events |-> IF e \in InPass(name) THEN [h[e] EXCEPT !.mutated = TRUE] ELSE h[e]]

\* on(eventName, handler, options); `dt` is the time since the clock was
\* last read (0: the same millisecond).
On(eventName, priority, once, kind, filter, dt) ==
    /\ reg.listeners < MaxListeners
    /\ now' = now + dt
    /\ LET listener == [uid |-> reg.listeners + 1,
                        id |-> <<"custom", eventName, now'>>,
                        priority |-> PriorityOrDefault(priority),
                        asked |-> priority,
                        once |-> once, kind |-> kind, filter |-> filter,
                        type |-> "custom"]
       IN  /\ eventListeners' =
                  [eventListeners EXCEPT ![eventName] = SortByPriority(Append(@, listener))]
           /\ reg' = [reg EXCEPT !.listeners = @ + 1,
                                 !.returned = @ \cup {<<eventName, listener.id>>},
                                 !.once = IF once THEN @ \cup {listener.uid} ELSE @]
    /\ hist' = MarkMutated(hist, eventName)
    /\ UNCHANGED <<rateLimits, req, blockedUntil, earlyDispatch, engineVars, gatewayVars>>
    /\ UNCHANGED <<middlewareStack, eventFilters, errorHandlers, queueVars, metrics, ev,
                   call>>

\* off(eventName, listenerId), called from outside.
Off(eventName, listenerId) ==
    /\ reg.offs < MaxOff
    /\ eventListeners' = [eventListeners EXCEPT ![eventName] = off(@, listenerId)]
    /\ reg' = [reg EXCEPT !.offs = @ + 1,
                          !.offLog = Append(@, [name |-> eventName, id |-> listenerId,
                                                known |-> <<eventName, listenerId>> \in reg.returned,
                                                removed |-> Len(eventListeners[eventName])
                                                    - Len(off(eventListeners[eventName], listenerId)),
                                                result |-> offReturns(eventListeners[eventName],
                                                                      listenerId)])]
    /\ hist' = IF offReturns(eventListeners[eventName], listenerId)
                   THEN MarkMutated(hist, eventName)
                   ELSE hist
    /\ UNCHANGED <<restVars, engineVars, gatewayVars>>
    /\ UNCHANGED <<middlewareStack, eventFilters, errorHandlers, queueVars, metrics, ev,
                   call>>

\* use(eventName, middleware, options)
Use(eventName, type, kind) ==
    /\ reg.middleware < MaxMiddleware
    /\ middlewareStack' =
           [middlewareStack EXCEPT ![eventName] =
               SortByPriority(Append(@, [uid |-> reg.middleware + 1, type |-> type,
                                         kind |-> kind,
                                         priority |-> PriorityOrDefault(Undefined)]))]
    /\ reg' = [reg EXCEPT !.middleware = @ + 1]
    /\ UNCHANGED <<restVars, engineVars, gatewayVars>>
    /\ UNCHANGED <<eventListeners, eventFilters, errorHandlers, queueVars, metrics, ev,
                   call, hist>>

\* addFilter(eventName, filter)
AddFilter(eventName) ==
    /\ reg.filters < MaxFilters
    /\ eventFilters' = [eventFilters EXCEPT ![eventName] = Append(@, reg.filters + 1)]
    /\ reg' = [reg EXCEPT !.filters = @ + 1]
    /\ UNCHANGED <<restVars, engineVars, gatewayVars>>
    /\ UNCHANGED <<eventListeners, middlewareStack, errorHandlers, queueVars, metrics, ev,
                   call, hist>>

\* onError(eventName, handler)
OnError(eventName) ==
    /\ reg.errorHandlers < MaxErrorHandlers
    /\ errorHandlers' = [errorHandlers EXCEPT ![eventName] = Append(@, reg.errorHandlers + 1)]
    /\ reg' = [reg EXCEPT !.errorHandlers = @ + 1]
    /\ UNCHANGED <<restVars, engineVars, gatewayVars>>
    /\ UNCHANGED <<eventListeners, middlewareStack, eventFilters, queueVars, metrics, ev,
                   call, hist>>

Range(seq) == { seq[i] : i \in 1..Len(seq) }

\* An event: its position in processEvent (`st`, `idx`, `cur`, `mwq`), and
\* the array its loop iterates when that array is no longer the one the
\* registry holds (`detached`, `own`).
NoEvent == [name |-> "none", st |-> "none", idx |-> 0, cur |-> NoListener, mwq |-> <<>>,
            detached |-> FALSE, own |-> <<>>]

\* const listeners = this.eventListeners.get(eventName) || [] (and the same
\* for the filters): the array a loop of the event iterates, which is the
\* registry's array `live[name]` until reset() clears the registry.
Iterated(event, live) == IF event.detached THEN event.own ELSE live[event.name]

\* The dispatcher's queue state as one value, for the methods that call each
\* other within one synchronous segment (emit -> processEventQueue).
Dispatcher ==
    [eventQueue |-> eventQueue, isProcessing |-> isProcessing,
     processingQueue |-> processingQueue, activeEvents |-> activeEvents,
     immediates |-> immediates, batches |-> batches, metrics |-> metrics,
     ev |-> ev, call |-> call]

Becomes(S) ==
    /\ eventQueue' = S.eventQueue
    /\ isProcessing' = S.isProcessing
    /\ processingQueue' = S.processingQueue
    /\ activeEvents' = S.activeEvents
    /\ immediates' = S.immediates
    /\ batches' = S.batches
    /\ metrics' = S.metrics
    /\ ev' = S.ev
    /\ call' = S.call

\* processEventQueue() up to `await Promise.allSettled(this.processingQueue)`:
\* each processEvent(eventData) it calls runs up to its first await, after
\* this.activeEvents.add(id). `awaiter` is the emit() call that awaits this
\* call, 0 when setImmediate made it. (this.processingQueue is empty and
\* concurrentEvents >= 1 whenever the guard is passed, so the loop starts at
\* least one event.)
processEventQueue(S, awaiter) ==
    IF S.isProcessing \/ Len(S.eventQueue) = 0
        THEN S
        ELSE LET room    == concurrentEvents - Len(S.processingQueue)
                 k       == IF room > 0 THEN Min(Len(S.eventQueue), room) ELSE 0
                 started == SubSeq(S.eventQueue, 1, k)
                 pq      == S.processingQueue \o started
             IN  [S EXCEPT
                    !.isProcessing = TRUE,
                    !.eventQueue = SubSeq(S.eventQueue, k + 1, Len(S.eventQueue)),
                    !.processingQueue = pq,
                    !.activeEvents = @ \cup Range(started),
                    !.ev = [e \in Events |->
                              IF e \in Range(started)
                                  THEN [S.ev[e] EXCEPT !.st = "filters", !.idx = 1]
                                  ELSE S.ev[e]],
                    !.batches = @ \cup {[evs |-> Range(pq), awaiter |-> awaiter]}]

\* history: the events whose listener is running when emit() is called.
Busy(S) == Cardinality({ x \in Events : S.ev[x].st = "await" })

\* history: what an emit() call finds, recorded when `observe` is set (the
\* specifications that study the queue set it). `settledAtCall` is the
\* number of listener runs that were over at the call.
Observed(S, observe) ==
    IF observe
        THEN [qlen |-> Len(S.eventQueue), busy |-> Busy(S), settledAtCall |-> reg.settled]
        ELSE [qlen |-> 0, busy |-> 0, settledAtCall |-> 0]

Called(S, observe, ret) ==
    [ret |-> ret, waited |-> 0, observed |-> observe, qlen |-> Observed(S, observe).qlen,
     busy |-> Observed(S, observe).busy,
     settledAtCall |-> Observed(S, observe).settledAtCall]

\* QueueFull as it would be with `>` for `>=`, and as it would be if the
\* events being processed counted with the events that wait.
QueueFullOffByOne(S) == Len(S.eventQueue) > maxQueueSize

QueueFullCountingActive(S) ==
    Len(S.eventQueue) + Cardinality(S.activeEvents) >= maxQueueSize

\* if (this.eventQueue.length >= this.config.maxQueueSize)
QueueFull(S) == Len(S.eventQueue) >= maxQueueSize

\* emit(eventName, ...args) up to its return or its await; `e` is the id of
\* the event (and of the call).
emit(S, e, eventName, observe) ==
    IF QueueFull(S)
        THEN [S EXCEPT
                !.metrics.eventsQueued = @ - 1,
                !.ev[e] = [NoEvent EXCEPT !.name = eventName, !.st = "rejected"],
                !.call[e] = Called(S, observe, "false")]
        ELSE LET S1 == [S EXCEPT
                          !.eventQueue = Append(@, e),
                          !.metrics.eventsQueued = @ + 1,
                          !.ev[e] = [NoEvent EXCEPT !.name = eventName, !.st = "queued"],
                          !.call[e] = Called(S, observe,
                                             IF S.isProcessing THEN "true" ELSE "pending")]
             IN  IF ~S.isProcessing THEN processEventQueue(S1, e) ELSE S1

\* An emit of "ready" reserves the next id for the "botReady" event that
\* handleReady emits.
Slots(eventName) == IF eventName = "ready" THEN 2 ELSE 1

\* emit(eventName, ...args), called from outside.
EmitCall(eventName, observe) ==
    /\ reg.emits + Slots(eventName) <= MaxEmits
    /\ Becomes(emit(Dispatcher, reg.emits + 1, eventName, observe))
    /\ reg' = [reg EXCEPT !.emits = @ + Slots(eventName)]
    /\ UNCHANGED <<restVars, engineVars, gatewayVars>>
    /\ UNCHANGED <<registryVars, hist>>

Emit(eventName) == EmitCall(eventName, FALSE)

EmitObserved(eventName) == EmitCall(eventName, TRUE)

\* The callback of setImmediate(() => this.processEventQueue()).
Immediate ==
    /\ immediates > 0
    /\ Becomes(processEventQueue([Dispatcher EXCEPT !.immediates = @ - 1], 0))
    /\ UNCHANGED <<restVars, engineVars, gatewayVars>>
    /\ UNCHANGED <<registryVars, hist, reg>>

\* A promise of processEvent is settled once the call has returned.
Settled(e) == ev[e].st \in {"done", "filtered"}

\* processEventQueue() from the resumption of Promise.allSettled to its end;
\* the emit() that awaited it then returns true.
BatchSettled(b) ==
    /\ b \in batches
    /\ \A e \in b.evs : Settled(e)
    /\ processingQueue' = <<>>
    /\ isProcessing' = FALSE
    /\ immediates' = IF Len(eventQueue) > 0 THEN immediates + 1 ELSE immediates
    /\ batches' = batches \ {b}
    /\ call' = IF b.awaiter # 0
                   THEN [call EXCEPT ![b.awaiter].ret = "true",
                                     ![b.awaiter].waited =
                                         IF call[b.awaiter].observed
                                             THEN reg.settled - call[b.awaiter].settledAtCall
                                             ELSE 0]
                   ELSE call
    /\ UNCHANGED <<restVars, engineVars, gatewayVars>>
    /\ UNCHANGED <<registryVars, eventQueue, activeEvents, metrics, ev, hist, reg>>

\* FilterDrops as it would be if a filter that throws dropped the event and
\* one that returns false did not.
FilterDropsOnError(out) == out = "throw"

\* if (!await filter(...args)) return false;  a filter that throws is
\* logged and the loop continues.
FilterDrops(out) == out = "false"

\* applyEventFilters(eventName, args): the filter at ev[e].idx is called and
\* returns `out` ("true", "false") or throws ("throw"). On false
\* processEvent returns, through `finally { this.activeEvents.delete(id) }`.
FilterEval(e, out) ==
    /\ ev[e].st = "filters"
    /\ ev[e].idx <= Len(Iterated(ev[e], eventFilters))
    /\ hist' = [hist EXCEPT ![e].filterLog =
                    Append(@, [filter |-> Iterated(ev[e], eventFilters)[ev[e].idx],
                               out |-> out])]
    /\ IF FilterDrops(out)
           THEN /\ ev' = [ev EXCEPT ![e].st = "filtered"]
                /\ activeEvents' = activeEvents \ {e}
           ELSE /\ ev' = [ev EXCEPT ![e].idx = @ + 1]
                /\ UNCHANGED activeEvents
    /\ UNCHANGED <<restVars, engineVars, gatewayVars>>
    /\ UNCHANGED <<registryVars, eventQueue, isProcessing, processingQueue, immediates,
                   batches, metrics, call, reg>>

\* middlewares.filter(m => m.type === type)
relevantMiddlewares(eventName, type) ==
    SelectSeq(middlewareStack[eventName], LAMBDA m : m.type = type)

\* applyEventFilters returned true; executeMiddleware(name, 'pre', args) begins.
FiltersPassed(e) ==
    /\ ev[e].st = "filters"
    /\ ev[e].idx > Len(Iterated(ev[e], eventFilters))
    /\ ev' = [ev EXCEPT ![e].st = "pre", ![e].idx = 0,
                        ![e].mwq = relevantMiddlewares(ev[e].name, "pre"),
                        ![e].detached = FALSE, ![e].own = <<>>]
    /\ UNCHANGED <<restVars, engineVars, gatewayVars>>
    /\ UNCHANGED <<registryVars, queueVars, metrics, call, hist, reg>>

\* executeMiddleware: one middleware is called; one that throws is logged
\* and the loop continues.
MiddlewareRun(e) ==
    /\ ev[e].st \in {"pre", "post"}
    /\ ev[e].mwq # <<>>
    /\ metrics' = IF Head(ev[e].mwq).kind = "ok"
                      THEN [metrics EXCEPT !.middlewareExecutions = @ + 1]
                      ELSE metrics
    /\ hist' = IF ev[e].st = "pre"
                   THEN [hist EXCEPT ![e].preRun = @ + 1]
                   ELSE [hist EXCEPT ![e].postRun = @ + 1]
    /\ ev' = [ev EXCEPT ![e].mwq = Tail(@)]
    /\ UNCHANGED <<restVars, engineVars, gatewayVars>>
    /\ UNCHANGED <<registryVars, queueVars, call, reg>>

\* executeMiddleware(name, 'pre', args) returned; executeEventListeners
\* begins to iterate this.eventListeners.get(eventName).
PreDone(e) ==
    /\ ev[e].st = "pre"
    /\ ev[e].mwq = <<>>
    /\ ev' = [ev EXCEPT ![e].st = "listeners", ![e].idx = 1]
    /\ hist' = [hist EXCEPT ![e].passStart = eventListeners[ev[e].name],
                            ![e].mutated = FALSE]
    /\ UNCHANGED <<restVars, engineVars, gatewayVars>>
    /\ UNCHANGED <<registryVars, queueVars, metrics, call, reg>>

\* The listener the iterator of `for (const listener of listeners)` yields:
\* the element of the live array at the iterator's index.
NextListener(e) == Iterated(ev[e], eventListeners)[ev[e].idx]

HasNextListener(e) ==
    /\ ev[e].st = "listeners"
    /\ ev[e].idx <= Len(Iterated(ev[e], eventListeners))

\* if (listener.filter && !await listener.filter(...args)) continue;
ListenerFiltered(e) ==
    /\ HasNextListener(e)
    /\ NextListener(e).filter = "reject"
    /\ ev' = [ev EXCEPT ![e].idx = @ + 1]
    /\ UNCHANGED <<restVars, engineVars, gatewayVars>>
    /\ UNCHANGED <<registryVars, queueVars, metrics, call, hist, reg>>

\* The position of processEvent once listener.handler(...args) has been
\* called and Promise.race is awaited.
Awaiting(event, listener) ==
    [event EXCEPT !.st = "await", !.cur = listener, !.idx = @ + 1]

\* await Promise.race([listener.handler(...args), timeout]) : the handler is called.
ListenerInvoke(e) ==
    /\ HasNextListener(e)
    /\ NextListener(e).filter # "reject"
    /\ NextListener(e).kind \in HandlerKinds
    /\ ev' = [ev EXCEPT ![e] = Awaiting(@, NextListener(e))]
    /\ hist' = [hist EXCEPT ![e].invoked = Append(@, NextListener(e).uid)]
    /\ UNCHANGED <<restVars, engineVars, gatewayVars>>
    /\ UNCHANGED <<registryVars, queueVars, metrics, call, reg>>

\* The same for the built-in listener handleReady, which runs up to
\* `await this.emit('botReady', user)`.
BuiltInInvoke(e) ==
    /\ HasNextListener(e)
    /\ NextListener(e).kind = "builtin"
    /\ e + 1 \in Events
    /\ ev[e + 1].st = "none"
    /\ Becomes(emit([Dispatcher EXCEPT !.ev[e] = Awaiting(@, NextListener(e))],
                    e + 1, "botReady", FALSE))
    /\ hist' = [hist EXCEPT ![e].invoked = Append(@, NextListener(e).uid)]
    /\ UNCHANGED <<restVars, engineVars, gatewayVars>>
    /\ UNCHANGED <<registryVars, reg>>

\* ListenerFailed as it would be if the error left executeEventListeners
\* and ended processEvent.
ListenerFailedEndsEvent(event) == [event EXCEPT !.st = "done", !.cur = NoListener]

\* ListenerFailed as it would be if processEvent went on awaiting the
\* handler that the failure belongs to.
ListenerFailedStillAwaited(event) == [event EXCEPT !.cur = NoListener]

\* ListenerFailed as it would be with `break` for `continue`.
ListenerFailedBreaks(event) ==
    [event EXCEPT !.st = "listeners", !.cur = NoListener,
                  !.idx = Len(Iterated(event, eventListeners)) + 1]

\* The catch block of the listener loop: `continue`.
ListenerFailed(event) == [event EXCEPT !.st = "listeners", !.cur = NoListener]

\* The handler's promise resolved: a one-time listener is removed with
\* this.off(eventName, listener.id), and the loop goes on.
ListenerSettle(e) ==
    /\ ev[e].st = "await"
    /\ \/ ev[e].cur.kind = "ok"
       \/ ev[e].cur.kind = "builtin" /\ call[e + 1].ret # "pending"
    /\ ev' = [ev EXCEPT ![e].st = "listeners", ![e].cur = NoListener]
    /\ IF ev[e].cur.once
           THEN /\ eventListeners' =
                       [eventListeners EXCEPT ![ev[e].name] = off(@, ev[e].cur.id)]
                /\ hist' = IF offReturns(eventListeners[ev[e].name], ev[e].cur.id)
                               THEN MarkMutated(hist, ev[e].name)
                               ELSE hist
           ELSE UNCHANGED <<eventListeners, hist>>
    /\ reg' = [reg EXCEPT !.settled = @ + 1]
    /\ UNCHANGED <<restVars, engineVars, gatewayVars>>
    /\ UNCHANGED <<middlewareStack, eventFilters, errorHandlers, queueVars, metrics, call>>

\* handleEventError(eventName, error, eventData): every handler of
\* this.errorHandlers.get(eventName) is called. Its callers are the catch
\* blocks of processEvent and of emit; executeEventListeners,
\* executeMiddleware, applyEventFilters and processEventQueue each catch what
\* the callables they await throw, so no statement of those two try blocks
\* throws and no step of the model applies this operator.
handleEventError(h, e) ==
    [h EXCEPT ![e].handled = @ + Len(errorHandlers[ev[e].name])]

\* history: one more failed listener run of event e, with the number of
\* error handlers and of error-phase middleware registered for the name at
\* that moment. The catch block of the listener loop calls neither.
ListenerFailure(h, e) ==
    [h EXCEPT ![e].failures = @ + 1,
              ![e].handlersThen = @ + Len(errorHandlers[ev[e].name]),
              ![e].errorMwThen = @ + Len(relevantMiddlewares(ev[e].name, "error"))]

\* The handler threw, or its promise rejected.
ListenerThrow(e) ==
    /\ ev[e].st = "await"
    /\ ev[e].cur.kind = "throw"
    /\ ev' = [ev EXCEPT ![e] = ListenerFailed(@)]
    /\ hist' = ListenerFailure(hist, e)
    /\ reg' = [reg EXCEPT !.settled = @ + 1]
    /\ UNCHANGED <<restVars, engineVars, gatewayVars>>
    /\ UNCHANGED <<registryVars, queueVars, metrics, call>>

\* The handler did not settle within listener.timeout: the timer rejects.
ListenerTimeout(e) ==
    /\ ev[e].st = "await"
    /\ ev[e].cur.kind = "hang"
    /\ ev' = [ev EXCEPT ![e] = ListenerFailed(@)]
    /\ hist' = ListenerFailure(hist, e)
    /\ reg' = [reg EXCEPT !.settled = @ + 1]
    /\ UNCHANGED <<restVars, engineVars, gatewayVars>>
    /\ UNCHANGED <<registryVars, queueVars, metrics, call>>

\* The listener loop is over; executeMiddleware(name, 'post', args) begins.
ListenersEnd(e) ==
    /\ ev[e].st = "listeners"
    /\ ev[e].idx > Len(Iterated(ev[e], eventListeners))
    /\ ev' = [ev EXCEPT ![e].st = "post", ![e].idx = 0,
                        ![e].mwq = relevantMiddlewares(ev[e].name, "post"),
                        ![e].detached = FALSE, ![e].own = <<>>]
    /\ UNCHANGED <<restVars, engineVars, gatewayVars>>
    /\ UNCHANGED <<registryVars, queueVars, metrics, call, hist, reg>>

\* updateEventMetrics as it would be if it returned before counting.
updateEventMetricsDisabled(m) == m

\* updateEventMetrics(eventName, processingTime)
updateEventMetrics(m) == [m EXCEPT !.eventsProcessed = @ + 1]

\* executeMiddleware(name, 'post', args) returned: the metrics are updated
\* and processEvent returns, through `finally`.
PostDone(e) ==
    /\ ev[e].st = "post"
    /\ ev[e].mwq = <<>>
    /\ metrics' = updateEventMetrics(metrics)
    /\ activeEvents' = activeEvents \ {e}
    /\ ev' = [ev EXCEPT ![e].st = "done"]
    /\ UNCHANGED <<restVars, engineVars, gatewayVars>>
    /\ UNCHANGED <<registryVars, eventQueue, isProcessing, processingQueue, immediates,
                   batches, call, hist, reg>>

\* The events that wait in the queue are gone once `this.eventQueue = []`
\* has run; an event that is being processed goes on, and after reset() its
\* loop still iterates the array it took from the registry.
Dropped(events, queue, detach) ==
    [e \in Events |->
        IF e \in Range(queue)
            THEN [events[e] EXCEPT !.st = "dropped"]
            ELSE IF detach /\ ~events[e].detached /\ events[e].st = "filters"
                     THEN [events[e] EXCEPT !.detached = TRUE,
                                            !.own = eventFilters[events[e].name]]
                     ELSE IF detach /\ ~events[e].detached
                                    /\ events[e].st \in {"listeners", "await"}
                              THEN [events[e] EXCEPT !.detached = TRUE,
                                                     !.own = eventListeners[events[e].name]]
                              ELSE events[e]]

\* reset(): the registries and the queue are cleared, the state and the
\* metrics are reset, the built-in listeners are registered again.
Reset ==
    /\ reg.resets < MaxResets
    /\ eventListeners' = initializeBuiltInEvents
    /\ middlewareStack' = [n \in Names |-> <<>>]
    /\ eventFilters' = [n \in Names |-> <<>>]
    /\ errorHandlers' = [n \in Names |-> <<>>]
    /\ eventQueue' = <<>>
    /\ isProcessing' = FALSE
    /\ processingQueue' = <<>>
    /\ activeEvents' = {}
    /\ metrics' = [eventsProcessed |-> 0, eventsQueued |-> 0, middlewareExecutions |-> 0,
                   errorEvents |-> 0]
    /\ ev' = Dropped(ev, eventQueue, TRUE)
    /\ reg' = [reg EXCEPT !.resets = @ + 1]
    /\ UNCHANGED <<restVars, engineVars, gatewayVars>>
    /\ UNCHANGED <<immediates, batches, call, hist>>

\* emergencyShutdown(): processing is marked stopped and the queues are
\* cleared.
EmergencyShutdown ==
    /\ reg.resets < MaxResets
    /\ isProcessing' = FALSE
    /\ eventQueue' = <<>>
    /\ processingQueue' = <<>>
    /\ activeEvents' = {}
    /\ ev' = Dropped(ev, eventQueue, FALSE)
    /\ reg' = [reg EXCEPT !.resets = @ + 1]
    /\ UNCHANGED <<restVars, engineVars, gatewayVars>>
    /\ UNCHANGED <<registryVars, metrics, immediates, batches, call, hist>>

NoHistory == [filterLog |-> <<>>, preRun |-> 0, postRun |-> 0, passStart |-> <<>>,
              invoked |-> <<>>, failures |-> 0, mutated |-> FALSE,
              handled |-> 0, errorRun |-> 0, handlersThen |-> 0, errorMwThen |-> 0]

InitEvents ==
    /\ eventListeners = initializeBuiltInEvents
    /\ middlewareStack = [n \in Names |-> <<>>]
    /\ eventFilters = [n \in Names |-> <<>>]
    /\ errorHandlers = [n \in Names |-> <<>>]
    /\ eventQueue = <<>>
    /\ isProcessing = FALSE
    /\ processingQueue = <<>>
    /\ activeEvents = {}
    /\ metrics = [eventsProcessed |-> 0, eventsQueued |-> 0, middlewareExecutions |-> 0,
                  errorEvents |-> 0]
    /\ immediates = 0
    /\ batches = {}
    /\ ev = [e \in Events |-> NoEvent]
    /\ call = [e \in Events |-> [ret |-> "none", waited |-> 0, observed |-> FALSE,
                                 qlen |-> 0, busy |-> 0, settledAtCall |-> 0]]
    /\ hist = [e \in Events |-> NoHistory]
    /\ reg = [listeners |-> 0, offs |-> 0, filters |-> 0, middleware |-> 0,
              errorHandlers |-> 0, emits |-> 0, resets |-> 0,
              settled |-> 0, returned |-> {}, once |-> {}, offLog |-> <<>>]

\* The steps of one batch: processEvent for each of its events, and the end
\* of processEventQueue's await.
Batch ==
    \/ \E b \in batches : BatchSettled(b)
    \/ \E e \in Events : FiltersPassed(e)
    \/ \E e \in Events : PreDone(e)
    \/ \E e \in Events : ListenerInvoke(e)
    \/ \E e \in Events : ListenerSettle(e)
    \/ \E e \in Events : ListenersEnd(e)
    \/ \E e \in Events : PostDone(e)

\* The steps of processEvent and of processEventQueue that the runtime takes
\* by itself.
Process == Immediate \/ Batch

\* Every step the runtime takes by itself: the continuations that are ready,
\* the listeners that settle, fail or time out.
Runs ==
    \/ Process
    \/ \E e \in Events : BuiltInInvoke(e)
    \/ \E e \in Events : ListenerThrow(e)
    \/ \E e \in Events : ListenerTimeout(e)
    \/ \E e \in Events : ListenerFiltered(e)
    \/ \E e \in Events : MiddlewareRun(e)
    \/ \E e \in Events, out \in {"true", "false", "throw"} : FilterEval(e, out)

----------------------------------------------------------------------------
(***************************************************************************)
(* AIEngine: primary provider, fallback provider, built-in response        *)
(***************************************************************************)

\* The processIntelligence() calls that can be in flight together.
Executes == 1..MaxInFlight

Providers == {"primary", "fallback"}

\* What callAIProvider gives: a response, an empty response (the content
\* trims to ""), or a failure (it throws).
Outcomes == {"response", "empty", "fail"}

NoExecute == [pc |-> "idle", result |-> "none", calledPrimary |-> FALSE,
              calledFallback |-> FALSE, primaryOutcome |-> "none",
              fallbackOutcome |-> "none", primaryWasAvailable |-> FALSE]

\* HasResponse as it would be if the test `if (response)` never passed.
HasNoResponse(outcome) == FALSE

\* if (response)
HasResponse(outcome) == outcome = "response"

\* generateBuiltInResponse as it would be if the last failure were thrown
\* to the caller.
propagateError(rec) == [rec EXCEPT !.pc = "done", !.result = "error"]

\* return this.generateBuiltInResponse(prompt, context)
generateBuiltInResponse(rec) == [rec EXCEPT !.pc = "done", !.result = "builtin"]

\* return this.generateEmergencyResponse(prompt, context)
generateEmergencyResponse(rec) == [rec EXCEPT !.pc = "done", !.result = "emergency"]

\* tryFallback as it would be without the test of fallback.available.
tryFallbackAnyway(rec) == [rec EXCEPT !.pc = "fallback", !.calledFallback = TRUE]

\* `if (this.providerStatus.fallback.available)`: callAIProvider is called
\* for the fallback provider, or the built-in response is returned.
tryFallback(rec) ==
    IF providerStatus.fallback.available
        THEN [rec EXCEPT !.pc = "fallback", !.calledFallback = TRUE]
        ELSE generateBuiltInResponse(rec)

\* The catch block of the primary attempt: errorCount++, and the provider
\* is disabled when errorCount > 5.
primaryFailed(status) ==
    [status EXCEPT !.primary.errorCount = @ + 1,
                   !.primary.available =
                       IF status.primary.errorCount + 1 > ErrorLimit THEN FALSE ELSE @]

\* The catch block of the fallback attempt: errorCount++.
fallbackFailed(status) == [status EXCEPT !.fallback.errorCount = @ + 1]

\* history: the failures of a provider in a row.
Streak(provider, outcome) ==
    [engine EXCEPT !.streak[provider] = IF outcome = "fail" THEN @ + 1
                                        ELSE IF outcome = "response" THEN 0 ELSE @]

\* processIntelligence(prompt, context) up to the first await or the return;
\* the call takes the first free place of `exec`.
\* buildIntelligentContext throws when `context` is not an object
\* (contextOk = FALSE), which the outer catch turns into the emergency
\* response.
Execute(x, contextOk) ==
    /\ engine.executes < MaxExecutes
    /\ exec[x].pc = "idle"
    /\ \A y \in 1..(x - 1) : exec[y].pc # "idle"
    /\ LET rec == [NoExecute EXCEPT
                      !.primaryWasAvailable = providerStatus.primary.available]
       IN  exec' = [exec EXCEPT ![x] =
                       IF ~contextOk
                           THEN generateEmergencyResponse(rec)
                           ELSE IF providerStatus.primary.available
                                    THEN [rec EXCEPT !.pc = "primary",
                                                     !.calledPrimary = TRUE]
                                    ELSE tryFallback(rec)]
    /\ engine' = [engine EXCEPT !.executes = @ + 1]
    /\ UNCHANGED providerStatus
    /\ UNCHANGED <<restVars, registryVars, queueVars, metrics, ev, call, hist, reg,
                   gatewayVars>>

\* The primary attempt is over: callAIProvider returned `outcome`.
PrimaryResult(x, outcome) ==
    /\ exec[x].pc = "primary"
    /\ LET rec == [exec[x] EXCEPT !.primaryOutcome = outcome]
       IN  exec' = [exec EXCEPT ![x] =
                       IF HasResponse(outcome)
                           THEN [rec EXCEPT !.pc = "done", !.result = "primary"]
                           ELSE tryFallback(rec)]
    /\ providerStatus' = IF outcome = "fail" THEN primaryFailed(providerStatus)
                                              ELSE providerStatus
    /\ engine' = Streak("primary", outcome)
    /\ UNCHANGED <<restVars, registryVars, queueVars, metrics, ev, call, hist, reg,
                   gatewayVars>>

\* The fallback attempt is over.
FallbackResult(x, outcome) ==
    /\ exec[x].pc = "fallback"
    /\ LET rec == [exec[x] EXCEPT !.fallbackOutcome = outcome]
       IN  exec' = [exec EXCEPT ![x] =
                       IF HasResponse(outcome)
                           THEN [rec EXCEPT !.pc = "done", !.result = "fallback"]
                           ELSE generateBuiltInResponse(rec)]
    /\ providerStatus' = IF outcome = "fail" THEN fallbackFailed(providerStatus)
                                              ELSE providerStatus
    /\ engine' = Streak("fallback", outcome)
    /\ UNCHANGED <<restVars, registryVars, queueVars, metrics, ev, call, hist, reg,
                   gatewayVars>>

\* The caller has its result.
Returned(x) ==
    /\ exec[x].pc = "done"
    /\ exec' = [exec EXCEPT ![x] = NoExecute]
    /\ UNCHANGED <<providerStatus, engine>>
    /\ UNCHANGED <<restVars, registryVars, queueVars, metrics, ev, call, hist, reg,
                   gatewayVars>>

\* What the probe's callAIProvider gives: a response that includes
\* 'INTELLIGENCE_ONLINE', another response, or a failure.
ProbeOutcomes == {"online", "other", "fail"}

\* testProviderConnections: the flag of a provider after its test call.
probed(status, provider, outcome) ==
    [status EXCEPT ![provider].available =
        IF outcome = "online" THEN TRUE ELSE IF outcome = "fail" THEN FALSE ELSE @]

\* testProviderConnections() up to the await of the primary's test call.
Probe ==
    /\ engine.probes < MaxProbes
    /\ engine.probe = "idle"
    /\ engine' = [engine EXCEPT !.probe = "primary", !.probes = @ + 1]
    /\ UNCHANGED <<providerStatus, exec>>
    /\ UNCHANGED <<restVars, registryVars, queueVars, metrics, ev, call, hist, reg,
                   gatewayVars>>

\* history: a probe that finds the provider online begins a new run: the
\* failures in a row are counted from it.
Probed(provider, outcome) ==
    [engine EXCEPT !.streak[provider] = IF outcome = "online" THEN 0 ELSE @]

\* The primary's test call is over; the fallback's test call is made.
ProbePrimaryResult(outcome) ==
    /\ engine.probe = "primary"
    /\ providerStatus' = probed(providerStatus, "primary", outcome)
    /\ engine' = [Probed("primary", outcome) EXCEPT !.probe = "fallback"]
    /\ UNCHANGED exec
    /\ UNCHANGED <<restVars, registryVars, queueVars, metrics, ev, call, hist, reg,
                   gatewayVars>>

\* The fallback's test call is over; testProviderConnections returns, or
\* throws 'No AI providers available'.
ProbeFallbackResult(outcome) ==
    /\ engine.probe = "fallback"
    /\ providerStatus' = probed(providerStatus, "fallback", outcome)
    /\ engine' = [Probed("fallback", outcome) EXCEPT !.probe = "idle"]
    /\ UNCHANGED exec
    /\ UNCHANGED <<restVars, registryVars, queueVars, metrics, ev, call, hist, reg,
                   gatewayVars>>

InitEngine ==
    /\ providerStatus = [p \in Providers |-> [available |-> TRUE, errorCount |-> 0]]
    /\ exec = [x \in Executes |-> NoExecute]
    /\ engine = [executes |-> 0, streak |-> [p \in Providers |-> 0], probe |-> "idle",
                 probes |-> 0]

\* The calls of one provider after the other, up to the circuit breaker.
NextBreaker ==
    \/ \E x \in Executes : Execute(x, TRUE)
    \/ \E x \in Executes, outcome \in Outcomes : PrimaryResult(x, outcome)
    \/ \E x \in Executes, outcome \in Outcomes : FallbackResult(x, outcome)
    \/ \E x \in Executes : Returned(x)

\* A few calls, for every availability of the providers: the health probe
\* turns a provider off and on.
NextEngine ==
    \/ \E x \in Executes, contextOk \in BOOLEAN :
           engine.executes < ExecutesCall /\ Execute(x, contextOk)
    \/ Probe
    \/ \E outcome \in ProbeOutcomes : ProbePrimaryResult(outcome)
    \/ \E outcome \in ProbeOutcomes : ProbeFallbackResult(outcome)
    \/ \E x \in Executes, outcome \in Outcomes : PrimaryResult(x, outcome)
    \/ \E x \in Executes, outcome \in Outcomes : FallbackResult(x, outcome)
    \/ \E x \in Executes : Returned(x)

----------------------------------------------------------------------------
(***************************************************************************)
(* DiscordClient: the gateway session                                      *)
(***************************************************************************)

Sockets == 1..MaxSockets

\* The sequence numbers of dispatch frames (the gateway counts from 1), and
\* Null for the frames that carry none.
SeqNumbers == 1..MaxSeq

\* A frame: hello (op 10), heartbeat ack (op 11), the READY dispatch, any
\* other dispatch (op 0).
FrameKinds == {"hello", "ack", "ready", "dispatch"}

\* readyState of a WebSocket: "connecting", "open", "closing", "closed".
\* history: `identifies` counts the identify payloads sent on the socket,
\* `hello` is set once the socket has delivered the hello frame, `resumable`
\* tells that this.sessionId was set when the socket was made, `resumes`
\* counts the resume payloads sent on it (no statement of the client sends
\* one). `promise` is the state of the promise that the connectGateway call
\* which made the socket returned, and `by` tells who called it: login(),
\* reconnect(), or the timer of the automatic reconnect, which drops it.
NoSocket == [state |-> "none", afterShutdown |-> FALSE, identifies |-> 0, hello |-> FALSE,
             resumable |-> FALSE, resumes |-> 0, by |-> "none", promise |-> "none"]

\* A transport is live while it is opening or open.
Live(s) == sockets[s].state \in {"connecting", "open"}

\* trackSequence as it would be if the tracked value were never replaced
\* once set.
trackSequenceOnce(last, s) == IF last = Null THEN s ELSE last

\* if (s) { this.lastSequence = s; } : null and 0 are both falsy.
trackSequence(last, s) == IF s = Null \/ s = 0 THEN last ELSE s

\* connectGateway(): `this.ws = new WebSocket(this.gatewayURL)`, with its
\* handlers; the socket `this.ws` pointed to before is left as it is.
connectGateway(G, by) ==
    LET n == G.gateway.sockets + 1
    IN  [G EXCEPT !.ws = n,
                  !.sockets[n] = [state |-> "connecting",
                                  afterShutdown |-> G.gateway.shutdown,
                                  identifies |-> 0, hello |-> FALSE,
                                  resumable |-> G.gateway.sessionId, resumes |-> 0,
                                  by |-> by, promise |-> "pending"],
                  !.gateway.sockets = n]

\* disconnect(): clearInterval(this.heartbeatInterval), this.ws.close(),
\* this.connected = false.
disconnect(G) ==
    [G EXCEPT !.heartbeat.running = @ \ {G.heartbeat.handle},
              !.sockets = [s \in Sockets |->
                              IF s = G.ws /\ G.sockets[s].state \in {"connecting", "open"}
                                  THEN [G.sockets[s] EXCEPT !.state = "closing"]
                                  ELSE G.sockets[s]],
              !.connected = FALSE]

\* The state of the client as one value, for the methods that call each
\* other within one synchronous segment.
Client ==
    [ws |-> ws, sockets |-> sockets, lastSequence |-> lastSequence,
     connected |-> connected, heartbeat |-> heartbeat, timers |-> timers,
     gateway |-> gateway]

ClientBecomes(G) ==
    /\ ws' = G.ws
    /\ sockets' = G.sockets
    /\ lastSequence' = G.lastSequence
    /\ connected' = G.connected
    /\ heartbeat' = G.heartbeat
    /\ timers' = G.timers
    /\ gateway' = G.gateway
    /\ UNCHANGED <<restVars, engineVars, registryVars, queueVars, metrics, ev, call, hist,
                   reg>>

CanConnect == gateway.sockets < MaxSockets

CanCall == gateway.calls < MaxGatewayCalls

\* connectGateway(), called by login().
ConnectGateway ==
    /\ CanCall
    /\ CanConnect
    /\ ClientBecomes(connectGateway([Client EXCEPT !.gateway.calls = @ + 1,
                                                   !.gateway.shutdown = FALSE],
                                    "login"))

\* disconnect(), called from outside: the explicit shutdown.
Disconnect ==
    /\ CanCall
    /\ ClientBecomes(disconnect([Client EXCEPT !.gateway.calls = @ + 1,
                                               !.gateway.shutdown = TRUE]))

\* reconnect() up to `await new Promise(resolve => setTimeout(resolve, 1000))`:
\* the caller connects again.
Reconnect ==
    /\ CanCall
    /\ ClientBecomes(disconnect([Client EXCEPT !.gateway.calls = @ + 1,
                                               !.gateway.shutdown = FALSE,
                                               !.timers.wait = @ + 1]))

\* reconnect() from the end of its wait: `await this.connectGateway()`.
ReconnectWake ==
    /\ timers.wait > 0
    /\ CanConnect
    /\ ClientBecomes(connectGateway([Client EXCEPT !.timers.wait = @ - 1], "reconnect"))

\* The callback of `setTimeout(() => this.connectGateway(), 5000)`.
AutoReconnect ==
    /\ timers.auto > 0
    /\ CanConnect
    /\ ClientBecomes(connectGateway([Client EXCEPT !.timers.auto = @ - 1], "timer"))

\* ws.on('open'): this.sendIdentify(), which sends on this.ws; the send
\* throws when this.ws is another socket that is not open.
SocketOpen(s) ==
    /\ sockets[s].state = "connecting"
    /\ LET G == [Client EXCEPT !.sockets[s].state = "open"]
       IN  ClientBecomes(IF G.sockets[G.ws].state = "open"
                             THEN [G EXCEPT !.sockets[G.ws].identifies = @ + 1]
                             ELSE G)

\* ws.on('close'): the transport is closed, by the server, by the network
\* or at the end of the close that disconnect() began.
SocketClosed(s) ==
    /\ sockets[s].state \in {"connecting", "open", "closing"}
    /\ ClientBecomes([Client EXCEPT !.sockets[s].state = "closed",
                                    !.connected = FALSE,
                                    !.timers.auto = @ + 1])

\* ws.on('error'): reject(error), which settles the promise of the
\* connectGateway call that made the socket unless 'ready' has resolved it.
\* The socket that reports an error is closing: its 'close' event follows.
SocketError(s) ==
    /\ sockets[s].state \in {"connecting", "open"}
    /\ ClientBecomes([Client EXCEPT
                         !.sockets[s].state = "closing",
                         !.sockets[s].promise = IF @ = "pending" THEN "rejected" ELSE @])

\* startHeartbeat(interval): this.heartbeatInterval = setInterval(...)
startHeartbeat(G) ==
    [G EXCEPT !.heartbeat = [handle |-> G.gateway.intervals + 1,
                             running |-> G.heartbeat.running \cup {G.gateway.intervals + 1}],
              !.gateway.intervals = @ + 1]

\* handleReady(data): this.connected = true, the session id is stored, and
\* this.emit('ready') runs the `resolve` that every connectGateway call
\* registered with this.once('ready', resolve).
handleReady(G) ==
    [G EXCEPT !.connected = TRUE,
              !.gateway.sessionId = TRUE,
              !.sockets = [s \in Sockets |->
                              IF G.sockets[s].promise = "pending"
                                  THEN [G.sockets[s] EXCEPT !.promise = "resolved"]
                                  ELSE G.sockets[s]]]

\* handleDispatch(event, data): READY goes to handleReady, every other
\* dispatch is emitted as an event. history: `emittedWhen` holds the values
\* this.connected had when such an event was emitted.
handleDispatch(G, kind) ==
    IF kind = "ready"
        THEN handleReady(G)
        ELSE [G EXCEPT !.gateway.emittedWhen = @ \cup {G.connected}]

\* ws.on('message'): handleGatewayMessage(packet) for a frame of `kind`
\* whose field s is `seq`. history: a heartbeat ack ends the count of the
\* heartbeats that no ack has followed; the client itself does nothing on it.
Frame(s, kind, seq) ==
    /\ sockets[s].state = "open"
    /\ gateway.frames < MaxFrames
    /\ kind \in {"hello", "ack"} <=> seq = Null
    /\ LET G == [Client EXCEPT
                    !.lastSequence = trackSequence(@, seq),
                    !.gateway.frames = @ + 1,
                    !.sockets[s].hello = @ \/ kind = "hello",
                    !.gateway.unacked = IF kind = "ack" THEN 0 ELSE @,
                    !.gateway.seen = IF seq = Null THEN @ ELSE Append(@, seq)]
       IN  ClientBecomes(CASE kind = "hello" -> startHeartbeat(G)
                           [] kind = "ack" -> G
                           [] OTHER -> handleDispatch(G, kind))

\* sendHeartbeat(): the heartbeat is sent when this.ws is open.
sendHeartbeat(G, h) ==
    IF G.ws # 0 /\ G.sockets[G.ws].state = "open"
        THEN [G EXCEPT !.gateway.unacked = IF h = G.heartbeat.handle THEN @ + 1 ELSE @]
        ELSE G

\* The callback of the setInterval that startHeartbeat made, for the
\* interval h. history: `unacked` counts the heartbeats that the interval
\* this.heartbeatInterval names has sent since the last heartbeat ack.
HeartbeatTick(h) ==
    /\ h \in heartbeat.running
    /\ gateway.beats < MaxBeats
    /\ ClientBecomes(sendHeartbeat([Client EXCEPT !.gateway.beats = @ + 1], h))

InitGateway ==
    /\ ws = 0
    /\ sockets = [s \in Sockets |-> NoSocket]
    /\ lastSequence = Null
    /\ connected = FALSE
    /\ heartbeat = [handle |-> 0, running |-> {}]
    /\ timers = [auto |-> 0, wait |-> 0]
    /\ gateway = [sockets |-> 0, calls |-> 0, frames |-> 0, intervals |-> 0,
                  shutdown |-> FALSE, seen |-> <<>>, emittedWhen |-> {}, unacked |-> 0,
                  sessionId |-> FALSE,
                  beats |-> 0]

\* The caller logs in once, or again after a shutdown; it calls disconnect()
\* and reconnect() on a client that has logged in, and does not call
\* reconnect() while an earlier reconnect() is still waiting.
NextGateway ==
    \/ (ws = 0 \/ gateway.shutdown) /\ ConnectGateway
    \/ ws # 0 /\ Disconnect
    \/ ws # 0 /\ timers.wait = 0 /\ Reconnect
    \/ ReconnectWake
    \/ AutoReconnect
    \/ \E s \in Sockets : SocketOpen(s)
    \/ \E s \in Sockets : SocketClosed(s)
    \/ \E s \in Sockets, kind \in FrameKinds, seq \in SeqNumbers \cup {Null} :
           Frame(s, kind, seq)

InitRest ==
    /\ now = 0
    /\ rateLimits = [k \in RouteKeys |-> 0]
    /\ req = [r \in Requests |-> NoRequest]
    /\ blockedUntil = [k \in RouteKeys |-> 0]
    /\ earlyDispatch = {}

NextRest ==
    \/ \E r \in Requests, ep \in Endpoints : ApiCall(r, ep)
    \/ \E r \in Requests : ApiFetch(r)
    \/ \E r \in Requests, status \in Statuses, rem \in RemainingHeaders,
          ra \in ResetAfterHeaders :
           \E retry \in RetryAfterHeaders(status) : ApiResponse(r, status, rem, ra, retry)
    \/ Tick

Init == InitRest /\ InitEvents /\ InitEngine /\ InitGateway

SpecRest == Init /\ [][NextRest]_vars

SpecEngine == Init /\ [][NextEngine]_vars

SpecBreaker == Init /\ [][NextBreaker]_vars

\* Primary attempts that fail, up to the circuit breaker, and the health
\* probe of a disabled primary provider.
NextRecovery ==
    \/ \E x \in Executes : Execute(x, TRUE)
    \/ \E x \in Executes : PrimaryResult(x, "fail")
    \/ \E x \in Executes, outcome \in Outcomes : FallbackResult(x, outcome)
    \/ \E x \in Executes : Returned(x)
    \/ ~providerStatus.primary.available /\ Probe
    \/ \E outcome \in ProbeOutcomes : ProbePrimaryResult(outcome)
    \/ \E outcome \in ProbeOutcomes : ProbeFallbackResult(outcome)

SpecRecovery == Init /\ [][NextRecovery]_vars

SpecGateway == Init /\ [][NextGateway]_vars

\* One login and the frames of its session, which lasts across the
\* transports that the automatic reconnect opens.
NextSession ==
    \/ ws = 0 /\ ConnectGateway
    \/ AutoReconnect
    \/ \E s \in Sockets : SocketOpen(s)
    \/ \E s \in Sockets : SocketClosed(s)
    \/ \E s \in Sockets, kind \in FrameKinds, seq \in SeqNumbers \cup {Null} :
           Frame(s, kind, seq)

SpecSession == Init /\ [][NextSession]_vars

\* The same with transport errors.
NextTransport ==
    \/ NextSession
    \/ \E s \in Sockets : SocketError(s)

SpecTransport == Init /\ [][NextTransport]_vars

\* The same with the heartbeat timer.
NextHeartbeat ==
    \/ NextSession
    \/ \E h \in 1..MaxFrames : HeartbeatTick(h)

SpecHeartbeat == Init /\ [][NextHeartbeat]_vars

\* The queue and the workers: emits of one name, whose listeners succeed
\* after any time.
NextQueue ==
    \/ EmitObserved("test")
    \/ reg.listeners = 0 /\ On("test", Undefined, FALSE, "ok", "none", 1)
    \/ Process

SpecQueue == Init /\ [][NextQueue]_vars

\* One-time and permanent listeners on one name.
NextOnce ==
    \/ reg.emits < EmitsBatch /\ Emit("test")
    \/ \E once \in BOOLEAN : On("test", Undefined, once, "ok", "none", 1)
    \/ Process

SpecOnce == Init /\ [][NextOnce]_vars

\* Listeners registered with every priority a caller can pass, next to the
\* built-in listener.
NextPriority ==
    \/ \E n \in {"test", "ready"} : reg.emits + Slots(n) <= EmitsPass /\ Emit(n)
    \/ \E n \in {"test", "ready"}, p \in PriorityOptions : On(n, p, FALSE, "ok", "none", 1)
    \/ \E e \in Events : BuiltInInvoke(e)
    \/ Process

SpecPriority == Init /\ [][NextPriority]_vars

\* Registration and removal; two registrations may fall in one millisecond.
ListenerIds == { <<"custom", "test", t>> : t \in 0..MaxListeners }

NextOff ==
    \/ reg.emits < EmitsPass /\ Emit("test")
    \/ \E dt \in {0, 1} : On("test", Undefined, FALSE, "ok", "none", dt)
    \/ \E id \in ListenerIds : Off("test", id)
    \/ Process

SpecOff == Init /\ [][NextOff]_vars

\* Listeners that throw, next to listeners that succeed.
NextErrors ==
    \/ \E n \in {"test", "botReady"} : reg.emits < EmitsPass /\ Emit(n)
    \/ \E kind \in {"ok", "throw"} : On("test", Undefined, FALSE, kind, "none", 1)
    \/ \E e \in Events : ListenerThrow(e)
    \/ Process

SpecErrors == Init /\ [][NextErrors]_vars

\* Event filters, pre-middleware and listeners; each emit is awaited before
\* the next one is made, as in the test 'Event filtering'.
Filtering ==
    \/ \E e \in Events, out \in {"true", "false", "throw"} : FilterEval(e, out)
    \/ \E e \in Events : MiddlewareRun(e)
    \/ \E e \in Events : ListenerFiltered(e)

NextFilter ==
    \/ reg.emits < EmitsFilter /\ ~isProcessing /\ Emit("test")
    \/ AddFilter("test")
    \/ \E kind \in {"ok", "throw"} : Use("test", "pre", kind)
    \/ \E f \in ListenerFilters : reg.listeners = 0 /\ On("test", Undefined, FALSE, "ok", f, 1)
    \/ Filtering
    \/ Batch

SpecFilter == Init /\ [][NextFilter]_vars

\* Error handlers and error-phase middleware, next to listeners that throw,
\* time out or succeed.
NextHandlers ==
    \/ reg.emits < EmitsPass /\ Emit("test")
    \/ \E kind \in HandlerKinds :
           reg.listeners = 0 /\ On("test", Undefined, FALSE, kind, "none", 1)
    \/ OnError("test")
    \/ Use("test", "error", "ok")
    \/ \E e \in Events : ListenerThrow(e)
    \/ \E e \in Events : ListenerTimeout(e)
    \/ Process

SpecHandlers == Init /\ [][NextHandlers]_vars

\* Emits of a name that never has a listener ("test"), next to emits of a
\* name that has one ("botReady").
NextUnheard ==
    \/ \E n \in {"test", "botReady"} : Emit(n)
    \/ reg.listeners = 0 /\ On("botReady", Undefined, FALSE, "ok", "none", 1)
    \/ Process

SpecUnheard == Init /\ [][NextUnheard]_vars

\* Emits to one listener that returns, with reset() or emergencyShutdown()
\* called at any moment; the runtime does not leave a ready step untaken.
NextReset ==
    \/ Emit("test")
    \/ reg.listeners = 0 /\ On("test", Undefined, FALSE, "ok", "none", 1)
    \/ Reset
    \/ EmergencyShutdown
    \/ Process

\* Middleware and listeners, some of which throw, are registered, and then
\* events are emitted one after the other.
NextMiddleware ==
    \/ \E type \in {"pre", "post"}, kind \in {"ok", "throw"} :
           reg.emits = 0 /\ Use("test", type, kind)
    \/ \E kind \in {"ok", "throw"} :
           reg.emits = 0 /\ On("test", Undefined, FALSE, kind, "none", 1)
    \/ reg.emits < EmitsFilter /\ ~isProcessing /\ Emit("test")
    \/ \E e \in Events : MiddlewareRun(e)
    \/ \E e \in Events : ListenerThrow(e)
    \/ Batch

SpecMiddleware == Init /\ [][NextMiddleware]_vars

\* Listeners that return and listeners that never settle, with a
\* post-middleware; the timer of a listener that never settles fires.
TimeoutRuns ==
    \/ \E e \in Events : ListenerTimeout(e)
    \/ \E e \in Events : MiddlewareRun(e)
    \/ Process

NextTimeout ==
    \/ reg.emits = 0 /\ reg.middleware = 0 /\ Use("test", "post", "ok")
    \/ \E kind \in {"ok", "hang"} : On("test", Undefined, FALSE, kind, "none", 1)
    \/ reg.emits < EmitsPass /\ Emit("test")
    \/ TimeoutRuns

SpecTimeout == Init /\ [][NextTimeout]_vars

\* One-shot listeners that return, throw or never settle; the events are
\* emitted one after the other.
NextOnceFails ==
    \/ \E kind \in HandlerKinds : On("test", Undefined, TRUE, kind, "none", 1)
    \/ reg.emits < EmitsPass /\ ~isProcessing /\ Emit("test")
    \/ \E e \in Events : ListenerThrow(e)
    \/ \E e \in Events : ListenerTimeout(e)
    \/ Batch

SpecOnceFails == Init /\ [][NextOnceFails]_vars

SpecReset == Init /\ [][NextReset]_vars /\ WF_vars(Process)

----------------------------------------------------------------------------
(***************************************************************************)
(* The claims                                                              *)
(***************************************************************************)

\* How often x occurs in seq, and where it occurs first.
Count(seq, x) == Cardinality({ i \in 1..Len(seq) : seq[i] = x })

FirstIndex(seq, x) ==
    CHOOSE i \in 1..Len(seq) : seq[i] = x /\ \A j \in 1..(i - 1) : seq[j] # x

RECURSIVE Invocations(_, _)
Invocations(uid, e) ==
    IF e = 0 THEN 0 ELSE Count(hist[e].invoked, uid) + Invocations(uid, e - 1)

\* C1: once a response for a route reported remaining = 0 with reset-after R,
\* no later request to the same route key is handed to fetch before R has
\* elapsed since that response was observed.
C1_NoDispatchInsideResetWindow == earlyDispatch = {}

\* C2: a one-shot listener is invoked exactly once in total, however the
\* emits of its name are scheduled: no one-shot listener is ever invoked a
\* second time.
C2_OneShotInvokedOnce == \A u \in reg.once : Invocations(u, MaxEmits) <= 1

\* C3: when the listener pass of an event is over, every listener that was
\* registered for the name when the pass started, and whose own filter
\* accepts the arguments, has been invoked in that pass.
C3_EveryRegisteredListenerInvoked ==
    \A e \in Events :
        ev[e].st \in {"post", "done"} =>
            \A i \in 1..Len(hist[e].passStart) :
                hist[e].passStart[i].filter # "reject" =>
                    hist[e].passStart[i].uid \in Range(hist[e].invoked)

\* The pass of e ran over an array that nothing changed meanwhile, and is over.
QuietPassOver(e) == ev[e].st \in {"post", "done"} /\ ~hist[e].mutated

\* C4 (safety part): a listener that throws or times out does not keep the
\* remaining listeners of the same emit from being invoked: a pass in which
\* listeners failed, over an array nothing changed meanwhile, has invoked
\* every listener of the array exactly once, in the array's order.
C4_FailureDoesNotStopThePass ==
    \A e \in Events :
        QuietPassOver(e) /\ hist[e].failures > 0 =>
            hist[e].invoked = [i \in 1..Len(hist[e].passStart) |-> hist[e].passStart[i].uid]

\* The events that were accepted and whose processing is not over.
Unfinished == { e \in Events : ev[e].st \in {"queued", "filters", "pre", "listeners",
                                             "await", "post"} }

\* C4 (progress part): after a listener has failed, the dispatcher is never
\* stuck on an accepted event: while one is unfinished, the runtime has a
\* step to take (and it takes finitely many, as each one advances an event).
C4_FailureDoesNotStopTheQueue ==
    (\E e \in Events : hist[e].failures > 0) /\ Unfinished # {} => ENABLED Runs

AskedPriority(l) == IF l.asked = Undefined THEN DefaultPriority ELSE l.asked

RunsBefore(a, b) ==
    \/ AskedPriority(a) < AskedPriority(b)
    \/ AskedPriority(a) = AskedPriority(b) /\ a.uid < b.uid

\* C5: within the processing of one event, a listener registered with a lower
\* priority, or with an equal priority and earlier, is invoked before the
\* other one, for every priority a caller can pass, 0 included.
C5_InvokedInPriorityOrder ==
    \A e \in Events :
        \A i, j \in 1..Len(hist[e].passStart) :
            LET a == hist[e].passStart[i]
                b == hist[e].passStart[j]
            IN  RunsBefore(a, b) /\ b.uid \in Range(hist[e].invoked) =>
                    /\ a.uid \in Range(hist[e].invoked)
                    /\ FirstIndex(hist[e].invoked, a.uid) < FirstIndex(hist[e].invoked, b.uid)

\* C6: for an id returned by on(), the first off returns true and removes a
\* listener, every later off with that id returns false and changes
\* nothing, and off with an id that on() never returned returns false.
C6_OffIsIdempotent ==
    \A i \in 1..Len(reg.offLog) :
        LET o      == reg.offLog[i]
            before == { j \in 1..(i - 1) : /\ reg.offLog[j].name = o.name
                                            /\ reg.offLog[j].id = o.id
                                            /\ reg.offLog[j].known }
        IN  /\ ~o.known => ~o.result /\ o.removed = 0
            /\ o.known /\ before = {} => o.result /\ o.removed = 1
            /\ o.known /\ before # {} => ~o.result /\ o.removed = 0

\* C7 (state part): emit returns false exactly when the queue held
\* maxQueueSize events at the call, and the rejected event is never queued
\* or processed.
C7_RejectedExactlyWhenFull ==
    \A e \in Events :
        call[e].ret # "none" =>
            /\ call[e].ret \in {"pending", "true", "false"}
            /\ call[e].ret = "false" <=> call[e].qlen = maxQueueSize
            /\ call[e].ret = "false" =>
                   /\ ev[e].st = "rejected"
                   /\ e \notin Range(eventQueue)
                   /\ e \notin Range(processingQueue)
                   /\ e \notin activeEvents
                   /\ hist[e] = NoHistory

\* C7 (step part): the emit that is rejected leaves the queue as it was.
C7_RejectionLeavesQueue ==
    \A e \in Events :
        call[e].ret = "none" /\ call'[e].ret = "false" => eventQueue' = eventQueue

\* C7: emit never throws; it returns false exactly when the event queue
\* already holds maxQueueSize events at the moment of the call and true
\* otherwise; a rejected emit leaves the queue unchanged and the rejected
\* event is never processed.
C7_EmitRejectsOnlyWhenQueueFull ==
    /\ []C7_RejectedExactlyWhenFull
    /\ [][C7_RejectionLeavesQueue]_vars

\* C7 witness: an emit was rejected on a full queue while another one, made
\* on a queue with room, was accepted and is waiting in the queue.
C7_Witness ==
    \E e, f \in Events :
        /\ call[e].ret = "false"
        /\ call[f].ret = "true"
        /\ f \in Range(eventQueue)
        /\ Len(eventQueue) = maxQueueSize

C9_EmitReturnsAtEnqueueTime == \A e \in Events : call[e].waited = 0

\* C10: an event for which a filter returned false is dropped: no
\* pre-middleware and no listener runs for it; the filters are evaluated in
\* registration order, and none is evaluated after the first that returned
\* false.
C10_FilteredEventIsDropped ==
    \A e \in Events :
        LET log == hist[e].filterLog
        IN  /\ \A i \in 1..Len(log) : log[i].filter = eventFilters[ev[e].name][i]
            /\ \A i \in 1..Len(log) : log[i].out = "false" => i = Len(log)
            /\ (\E i \in 1..Len(log) : log[i].out = "false") =>
                   /\ ev[e].st = "filtered"
                   /\ hist[e].preRun = 0
                   /\ hist[e].invoked = <<>>
                   /\ hist[e].postRun = 0

\* C10 witness: the second of two filters returned false after the first one
\* had let the event pass, and the event was dropped although the name has a
\* pre-middleware and a listener.
C10_Witness ==
    \E e \in Events :
        /\ ev[e].st = "filtered"
        /\ Len(hist[e].filterLog) = 2
        /\ hist[e].filterLog[1].out # "false"
        /\ relevantMiddlewares(ev[e].name, "pre") # <<>>
        /\ eventListeners[ev[e].name] # <<>>

\* C11: when a listener registered on a name throws while an event of that
\* name is processed, every error handler registered with onError for the
\* name is invoked for that failure: once the event has been processed, as
\* many handler invocations were made for it as its failures found handlers
\* registered.
C11_ErrorHandlersInvoked ==
    \A e \in Events : ev[e].st = "done" => hist[e].handled = hist[e].handlersThen

\* C12: error-phase middleware registered for a name runs exactly once for
\* each listener failure (throw or timeout) of an event of that name, and
\* does not run when no listener fails.
C12_ErrorMiddlewareRunsPerFailure ==
    \A e \in Events :
        /\ ev[e].st = "done" => hist[e].errorRun = hist[e].errorMwThen
        /\ hist[e].failures = 0 => hist[e].errorRun = 0

\* The names on which no listener, built-in or custom, was ever registered.
Unheard(n) ==
    /\ n \in Names
    /\ initializeBuiltInEvents[n] = <<>>
    /\ \A pair \in reg.returned : pair[1] # n

\* C13 (state part): an event of a name without listeners causes no
\* listener invocation and no failure; the processed count of the metrics
\* equals the number of events processed to the end, and their error count
\* stays zero.
C13_UnheardEventCounted ==
    /\ \A e \in Events :
           Unheard(ev[e].name) =>
               /\ hist[e].invoked = <<>>
               /\ hist[e].failures = 0
               /\ call[e].ret # "false" => ev[e].st # "rejected"
    /\ metrics.eventsProcessed = Cardinality({ e \in Events : ev[e].st = "done" })
    /\ metrics.errorEvents = 0

\* C13 (step part): the emit of such a name is turned away only by a full
\* queue, as every emit is; the step that ends its processing adds exactly
\* one to the processed count.
C13_UnheardEmitAccepted ==
    \A e \in Events :
        /\ call[e].ret = "none" /\ call'[e].ret = "false" /\ Unheard(ev'[e].name) =>
               Len(eventQueue) >= maxQueueSize
        /\ ev[e].st # "done" /\ ev'[e].st = "done" /\ Unheard(ev[e].name) =>
               /\ metrics'.eventsProcessed = metrics.eventsProcessed + 1
               /\ metrics'.errorEvents = metrics.errorEvents

C14_PrimaryDisabledAtThreshold ==
    /\ engine.streak["primary"] >= ErrorLimit => ~providerStatus.primary.available
    /\ \A x \in Executes :
           exec[x].pc # "idle" /\ exec[x].result # "emergency" /\ ~exec[x].primaryWasAvailable =>
               /\ ~exec[x].calledPrimary
               /\ exec[x].calledFallback \/ exec[x].result = "builtin"

\* The results processIntelligence returns.
Results == {"primary", "fallback", "builtin", "emergency"}

\* C15: processIntelligence always returns a result and never propagates an
\* error, whatever the availability of the providers and whatever they give
\* (response, empty response, failure): a call that waits for a provider
\* goes on for each outcome, a finished call holds a result, and when no
\* provider gave a response the result is the built-in response.
C15_AlwaysReturnsAResult ==
    \A x \in Executes :
        /\ exec[x].pc \in {"primary", "fallback"} =>
               \A outcome \in Outcomes :
                   ENABLED (PrimaryResult(x, outcome) \/ FallbackResult(x, outcome))
        /\ exec[x].pc = "done" =>
               /\ exec[x].result \in Results
               /\ exec[x].result # "emergency"
                      /\ exec[x].primaryOutcome # "response"
                      /\ exec[x].fallbackOutcome # "response"
                      => exec[x].result = "builtin"

\* C15 witness: both providers were called and failed, and the caller gets
\* the built-in response.
C15_Witness ==
    \E x \in Executes :
        /\ exec[x].pc = "done"
        /\ exec[x].primaryOutcome = "fail"
        /\ exec[x].fallbackOutcome = "fail"
        /\ exec[x].result = "builtin"

\* C16: within one call the fallback provider is called only if the primary
\* provider was unavailable or its attempt in that call gave no result; when
\* the primary attempt succeeds the fallback provider is not called and the
\* primary's response is returned.
C16_FallbackOnlyAfterPrimary ==
    \A x \in Executes :
        /\ exec[x].calledFallback =>
               \/ ~exec[x].primaryWasAvailable /\ ~exec[x].calledPrimary
               \/ exec[x].primaryOutcome \in {"empty", "fail"}
        /\ exec[x].primaryOutcome = "response" =>
               /\ ~exec[x].calledFallback
               /\ exec[x].pc = "done"
               /\ exec[x].result = "primary"

\* C16 witness: one call was answered by the primary provider while another
\* one, whose primary attempt failed, has called the fallback provider.
C16_Witness ==
    \E x, y \in Executes :
        /\ exec[x].primaryOutcome = "response"
        /\ exec[x].result = "primary"
        /\ ~exec[x].calledFallback
        /\ exec[y].primaryOutcome = "fail"
        /\ exec[y].calledFallback

\* Whether a sequence of numbers is strictly increasing, and its maximum.
StrictlyIncreasing(seq) == \A i \in 1..(Len(seq) - 1) : seq[i] < seq[i + 1]

Maximum(seq) == CHOOSE m \in Range(seq) : \A x \in Range(seq) : x <= m

\* C17: for every sequence of dispatch frames with strictly increasing
\* sequence numbers delivered to the session, the tracked last-sequence
\* never decreases and after each frame equals the maximum sequence number
\* observed so far.
C17_LastSequenceIsMaximum ==
    StrictlyIncreasing(gateway.seen) =>
        IF gateway.seen = <<>>
            THEN lastSequence = Null
            ELSE lastSequence = Maximum(gateway.seen)

\* C17 witness: three dispatch frames with increasing sequence numbers have
\* been handled.
C17_Witness ==
    /\ Len(gateway.seen) = MaxFrames
    /\ StrictlyIncreasing(gateway.seen)
    /\ lastSequence = gateway.seen[MaxFrames]

\* C18: after an explicit disconnect() the client makes no further
\* connection or reconnect attempt: no transport is opened while the last
\* call from outside was disconnect().
C18_NoConnectAfterDisconnect == \A s \in Sockets : ~sockets[s].afterShutdown

\* C19: at every moment at most one transport of the session is live
\* (opening or open).
C19_AtMostOneLiveTransport == Cardinality({ s \in Sockets : Live(s) }) <= 1

\* The api() calls that a rate-limit rejection has answered.
Rejected == { r \in Requests : req[r].pc = "done" /\ req[r].status = 429 }

\* C20: on a 429 response api() does not send the request again, sets the
\* route's bucket to the time of the response plus the retry-after seconds,
\* and throws an error named RateLimited, which no other response raises.
C20_RateLimitRejection ==
    /\ \A r \in Rejected :
           /\ req[r].fetches = 1
           /\ req[r].bucket = req[r].at + req[r].retryAfter * MsPerSecond
           /\ req[r].raised = "RateLimited"
    /\ \A r \in Requests \ Rejected : req[r].raised # "RateLimited"

\* The api() calls that a server error (5xx) has answered.
ServerFailed == { r \in Requests : req[r].pc = "done" /\ req[r].status \in 500..599 }

\* C21: a request answered by a 5xx response is sent again, and the error
\* thrown to the caller once every attempt has failed is TransportError.
C21_ServerErrorRetried ==
    \A r \in ServerFailed : req[r].fetches > 1 /\ req[r].raised = "TransportError"

\* The events that emit accepted, those whose processing is over, and those
\* that processEvent has started and not finished.
Accepted == { e \in Events : ev[e].st \notin {"none", "rejected"} }

Completed == { e \in Events : ev[e].st = "done" }

InFlight == { e \in Events : ev[e].st \in {"filters", "pre", "listeners", "await", "post"} }

\* C22: an event that emit accepted is eventually processed to completion,
\* whatever is called afterwards (further emits, reset, emergencyShutdown).
\* processEvent receives events from the queue only, so an accepted event
\* can still be completed only while it waits in the queue or is being
\* processed: every accepted event is completed, queued or being processed.
C22_AcceptedEventCompletes ==
    \A e \in Accepted : e \in Completed \/ e \in Range(eventQueue) \/ e \in InFlight

\* C23: the number of events that processEvent has started and not finished
\* never exceeds concurrentEvents.
C23_AtMostConcurrentEventsInFlight == Cardinality(InFlight) <= concurrentEvents

\* The middleware of a type registered for the name of event e.
Registered(e, type) == Len(relevantMiddlewares(ev[e].name, type))

\* C24: for each processed event every pre-middleware registered for its
\* name has been called before the first listener is invoked, no
\* post-middleware is called before the listener loop is over, and every
\* post-middleware has been called when the processing ends, also when
\* listeners or a pre-middleware threw.
C24_MiddlewareAroundListeners ==
    \A e \in Events :
        /\ (hist[e].invoked # <<>> \/ ev[e].st \in {"listeners", "await", "post", "done"})
               => hist[e].preRun = Registered(e, "pre")
        /\ hist[e].postRun > 0
               => ev[e].st \in {"post", "done"} /\ ev[e].cur = NoListener
        /\ ev[e].st = "done" => hist[e].postRun = Registered(e, "post")

\* C24 witness: an event is done whose pre-middleware threw and one of whose
\* listeners threw, and its post-middleware has been called.
C24_Witness ==
    \E e \in Events :
        /\ ev[e].st = "done"
        /\ hist[e].failures > 0
        /\ \E i \in 1..Len(middlewareStack[ev[e].name]) :
               /\ middlewareStack[ev[e].name][i].type = "pre"
               /\ middlewareStack[ev[e].name][i].kind = "throw"
        /\ hist[e].preRun > 0
        /\ hist[e].postRun > 0

\* The events in whose pass a listener timed out.
TimedOut == { e \in Events : hist[e].failures > 0 }

\* C25: a listener that exceeds its timeout is abandoned alone. A pass in
\* which a listener timed out, over an array nothing changed meanwhile, has
\* invoked every listener of the array; the event then runs its
\* post-middleware and finishes; and while any accepted event is unfinished
\* the runtime has a step to take.
C25_TimeoutAbandonsOneListener ==
    /\ \A e \in TimedOut :
           /\ QuietPassOver(e) =>
                  \A i \in 1..Len(hist[e].passStart) :
                      hist[e].passStart[i].uid \in Range(hist[e].invoked)
           /\ ev[e].st = "done" => hist[e].postRun = Registered(e, "post")
    /\ TimedOut # {} /\ Unfinished # {} => ENABLED TimeoutRuns

\* C25 witness: an event whose first listener timed out has invoked its
\* second listener, has run its post-middleware and is done, and the event
\* that waited behind it is done as well.
C25_Witness ==
    \E e \in TimedOut :
        /\ ev[e].st = "done"
        /\ ~hist[e].mutated
        /\ Len(hist[e].passStart) = 2
        /\ hist[e].passStart[1].kind = "hang"
        /\ Len(hist[e].invoked) = 2
        /\ hist[e].postRun = 1
        /\ \E f \in Events : f > e /\ ev[f].st = "done"

\* A listener is in the registry; its handler is running.
InRegistry(uid) ==
    \E n \in Names : \E i \in 1..Len(eventListeners[n]) : eventListeners[n][i].uid = uid

Running(uid) == \E e \in Events : ev[e].st = "await" /\ ev[e].cur.uid = uid

\* C26: a one-shot listener whose first invocation is over, whether the
\* handler returned, threw or timed out, is no longer in the registry, and
\* no later emit invokes it again.
C26_OneShotRemovedWhateverTheOutcome ==
    \A u \in reg.once :
        /\ Invocations(u, MaxEmits) > 0 /\ ~Running(u) => ~InRegistry(u)
        /\ Invocations(u, MaxEmits) <= 1

\* C27: the tracked last-sequence never decreases, whatever frames arrive
\* in whatever order, and across the close of a transport and the automatic
\* reconnect: no step replaces a sequence number by a lower one or by none.
C27_LastSequenceNeverDecreases ==
    [][lastSequence # Null => lastSequence' # Null /\ lastSequence' >= lastSequence]_vars

\* C28: on every connection the identify payload is sent only after the
\* hello frame has been received: no identify has been sent on a transport
\* that has not delivered hello.
C28_IdentifyOnlyAfterHello ==
    \A s \in Sockets : sockets[s].identifies > 0 => sockets[s].hello

\* C29: a dispatch frame other than READY is emitted as an event only while
\* the session is connected: none has been emitted while this.connected was
\* false.
C29_DispatchOnlyWhileConnected == FALSE \notin gateway.emittedWhen

\* C30: a session whose heartbeats are not acknowledged does not stay
\* connected: when the heartbeat timer has sent a second heartbeat with no
\* ack since the first, the transport is no longer open or opening.
C30_UnackedHeartbeatClosesTransport == gateway.unacked > 1 => ~Live(ws)

\* C31: on a transport opened after a session had been established (a
\* session id was stored), a fresh identify is sent only after a resume has
\* been sent on that transport.
C31_ResumeBeforeIdentify ==
    \A s \in Sockets :
        sockets[s].resumable /\ sockets[s].identifies > 0 => sockets[s].resumes > 0

\* C32: a transport error on the gateway connection is never surfaced to
\* the caller of login: the promise that login awaits is not rejected, and
\* no promise of a connectGateway call is rejected with nobody to handle it.
C32_TransportErrorNotSurfaced ==
    \A s \in Sockets : sockets[s].promise # "rejected"

\* C33: after a response the route's bucket is in the state that the
\* response reported: blocked until the reset when it reported
\* remaining = 0, not blocked when it reported a remaining count above 0,
\* whatever the responses before it reported and whatever its status.
C33_LastResponseWins ==
    \A r \in Requests :
        req[r].pc = "done" /\ req[r].reported # NaN =>
            IF req[r].reported > req[r].at
                THEN req[r].bucket = req[r].reported
                ELSE req[r].bucket <= req[r].at

\* C34: a successful attempt on a provider resets its consecutive-error
\* count, so the count is the number of its failures in a row, and the
\* primary provider is disabled only by ErrorLimit failures in a row.
C34_SuccessResetsErrorCount ==
    /\ \A p \in Providers : providerStatus[p].errorCount = engine.streak[p]
    /\ ~providerStatus.primary.available => engine.streak["primary"] >= ErrorLimit

\* C35: the fallback provider is disabled like the primary: once its error
\* count has crossed ErrorLimit it is unavailable.
C35_FallbackDisabledAtThreshold ==
    providerStatus.fallback.errorCount > ErrorLimit => ~providerStatus.fallback.available

\* C36: execute never calls a provider whose available flag is false and
\* never sets the flag back to true: an attempt on a provider begins only
\* in a step that finds the provider available, and the flag of a provider
\* becomes true only in the step that ends the health probe's test call for
\* that provider.
C36_UnavailableProviderLeftAlone ==
    [][/\ \A x \in Executes :
              /\ exec[x].pc # "primary" /\ exec'[x].pc = "primary"
                     => providerStatus.primary.available
              /\ exec[x].pc # "fallback" /\ exec'[x].pc = "fallback"
                     => providerStatus.fallback.available
       /\ \A p \in Providers :
              ~providerStatus[p].available /\ providerStatus'[p].available
                  => engine.probe = p /\ engine'.probe # p]_vars

\* C36 witness: while both providers are unavailable a call has returned
\* the built-in response without having called either of them.
C36_Witness ==
    /\ \A p \in Providers : ~providerStatus[p].available
    /\ \E x \in Executes :
           /\ exec[x].pc = "done"
           /\ exec[x].result = "builtin"
           /\ ~exec[x].calledPrimary
           /\ ~exec[x].calledFallback

\* C37: a provider that a health probe found online again is disabled
\* again only by ErrorLimit new failures in a row: a step of execute that
\* disables the primary provider ends a run of at least ErrorLimit failures
\* counted from the last success or successful probe.
C37_ProbedProviderStartsAfresh ==
    [][(/\ providerStatus.primary.available
        /\ ~providerStatus'.primary.available
        /\ engine'.probe = engine.probe)
           => engine'.streak["primary"] >= ErrorLimit]_vars

\* C38: the listeners registered on one event name carry pairwise different
\* ids, also when two registrations fall in the same millisecond, so an id
\* names one listener for off() and for the removal of a one-time listener.
C38_ListenerIdsDistinct ==
    \A name \in DOMAIN eventListeners :
        \A i, j \in 1..Len(eventListeners[name]) :
            i # j => eventListeners[name][i].id # eventListeners[name][j].id

\* C39: at most one heartbeat timer runs per client, and none runs while
\* the client has no transport that is open or opening (after the transport
\* closed, after disconnect()).
C39_AtMostOneHeartbeatTimer ==
    /\ Cardinality(heartbeat.running) <= 1
    /\ (\A s \in Sockets : ~Live(s)) => heartbeat.running = {}

\* C40: with no reset since construction, metrics.eventsQueued is the
\* number of the emits that were accepted; so it is never negative and a
\* rejected emit leaves it as it was.
C40_EventsQueuedCountsAccepted == metrics.eventsQueued = Cardinality(Accepted)

====
